---- MODULE Spec2Model ----
(***************************************************************************)
(* Symbol Modifier for COFF (SMC): the ordered hash dictionary and the     *)
(* append buffer of smclib.c, and the three passes of main() in smc.c.     *)
(* Strings are sequences of byte values; the part of the file image from   *)
(* the symbol table on is a flat sequence of bytes, as it is in memory.    *)
(***************************************************************************)
EXTENDS Integers, Sequences, FiniteSets, TLC

VARIABLES pc, img, in0, nsym, dict, i, renames, buf, e, sym, out, err, last, hist

vars == <<pc, img, in0, nsym, dict, i, renames, buf, e, sym, out, err, last, hist>>

(* ------------------------------ bounds --------------------------------- *)
MaxPrim == 2        \* primary symbols in the input file
MaxRenames == 2     \* rename requests on the command line
BigLen == 130       \* length of the big replacement name
HugeLen == 600      \* length of the huge replacement name
MaxKeys == 43       \* distinct keys added to one dictionary
MaxDictRenames == 2 \* rename requests made to one dictionary
MaxBits == 7        \* size_bits of the largest slot table that is probed
MaxAppends == 3     \* strings appended to one buffer

(* --------------------------- C strings --------------------------------- *)
NUL == 0
\* a null pointer where a string is expected (val_t val == NULL)
NULL == << -1 >>

Rep(b, n) == [k \in 1..n |-> b]

RECURSIVE Pow2Of(_)
Pow2Of(n) == IF n = 0 THEN 1 ELSE 2 * Pow2Of(n - 1)

\* the powers of two up to 2^24, computed once
Pow2Memo == [n \in 0..24 |-> Pow2Of(n)]

Pow2(n) == IF n \in 0..24 THEN Pow2Memo[n] ELSE Pow2Of(n)

\* the byte at offset off (from 0) of a memory area
ByteAt(m, off) == m[off + 1]

\* strlen of the string that starts at offset off of m: the distance to
\* the first NUL; a read that runs to the end of the area stops there
StrEndsAt(m, off) == off >= Len(m) \/ ByteAt(m, off) = NUL

StrLenAt(m, off) ==
  IF off >= Len(m) THEN 0
  ELSE CHOOSE n \in 0..(Len(m) - off) :
         StrEndsAt(m, off + n) /\ \A k \in 0..(n - 1) : ~StrEndsAt(m, off + k)

\* the C string at offset off of m: the bytes up to the first NUL
CStrAt(m, off) == [k \in 1..StrLenAt(m, off) |-> ByteAt(m, off + k - 1)]

\* a 32-bit little-endian DWORD
LE32(n) == << n % 256, (n \div 256) % 256, (n \div 65536) % 256,
              (n \div 16777216) % 256 >>

DWordAt(m, off) == ByteAt(m, off) + 256 * ByteAt(m, off + 1)
                   + 65536 * ByteAt(m, off + 2) + 16777216 * ByteAt(m, off + 3)

\* m with the bytes bs stored from offset off on
Store(m, off, bs) ==
  [k \in 1..Len(m) |-> IF k > off /\ k <= off + Len(bs) THEN bs[k - off] ELSE m[k]]

(* ------------------------------ hash_key ------------------------------- *)
\* hash_t is size_t: 64 bits, kept as four 16-bit limbs, low limb first
HashLimbs == 4
LimbBase == 65536

Limb(h, k) == IF k >= 1 /\ k <= HashLimbs THEN h[k] ELSE 0

\* limb k of h << 5
Shl5(h, k) == ((h[k] * 32) % LimbBase) + (Limb(h, k - 1) \div 2048)

\* limb k of h >> 27
Shr27(h, k) == (Limb(h, k + 1) \div 2048) + ((Limb(h, k + 2) % 2048) * 32)

\* carry propagation of a limb-wise sum, modulo 2^64
RECURSIVE Carry(_, _, _)
Carry(s, k, c) ==
  IF k > HashLimbs THEN << >>
  ELSE << (s[k] + c) % LimbBase >> \o Carry(s, k + 1, (s[k] + c) \div LimbBase)

\* h += (h << 5) + (h >> 27) + b
HashStep(h, b) ==
  LET s == [k \in 1..HashLimbs |->
              h[k] + Shl5(h, k) + Shr27(h, k) + (IF k = 1 THEN b ELSE 0)]
  IN Carry(s, 1, 0)

RECURSIVE HashFrom(_, _, _)
HashFrom(h, key, k) ==
  IF k > Len(key) THEN h ELSE HashFrom(HashStep(h, key[k]), key, k + 1)

\* the loop of hash_key, from h = 1
HashOf(key) == HashFrom([k \in 1..HashLimbs |-> IF k = 1 THEN 1 ELSE 0], key, 1)

(* ------------------------------ the names ----------------------------- *)
NmShort == << 99, 100 >>
Nm8 == << 97, 98, 99, 100, 101, 102, 103, 104 >>
NmLong == << 97, 98, 99, 100, 101, 102, 103, 104, 105, 106, 107, 108, 109, 110 >>
NmNone == << 122, 122, 122, 122, 122, 122, 122, 122, 122 >>
NmNew8 == << 120, 121, 120, 121, 120, 121, 120, 121 >>
NmEmpty == << >>
NmBig == Rep(98, BigLen)
NmHuge == Rep(104, HugeLen)

\* the primary symbols an input file is made of: the name, whether it is
\* stored in the string table, the low byte of Value, the auxiliary records
SymKinds ==
  { [name |-> NmShort, long |-> FALSE, value0 |-> 7, naux |-> 1],
    [name |-> Nm8,     long |-> FALSE, value0 |-> 0, naux |-> 0],
    [name |-> Nm8,     long |-> FALSE, value0 |-> 7, naux |-> 0],
    [name |-> NmLong,  long |-> TRUE,  value0 |-> 7, naux |-> 1] }

\* the names of the rename requests: argv[i] and argv[i + 1]
OldNames == { NmShort, Nm8, Nm8 \o << 7 >>, NmLong, NmNone }
NewNames == { NmNew8, NmEmpty, NmHuge }

\* hash_key; the hashes of the names of the rename requests are computed
\* once
\* two-byte keys: those with the same n \div 4 have the same hash, and
\* consecutive values of n \div 4 give consecutive hashes
Key(n) == << 97 + (n % 4), 65 + 33 * (3 - (n % 4)) + (n \div 4) >>

DictKeys == { Key(n) : n \in 0..MaxKeys }

HashMemo == [key \in OldNames \cup DictKeys |-> HashOf(key)]

hash_key(key) == IF key \in DOMAIN HashMemo THEN HashMemo[key] ELSE HashOf(key)

(* ------------------------------ dictionary ----------------------------- *)
DICT_INIT_BITS == 5
IDX_EMPTY == -1

DICT_SIZE(d) == Pow2(d.size_bits)

\* hash & (size - 1), for a size of at most 2^16
MaskIndex(h, size) == h[1] % size

\* a probe step with the multiplier 3
NEXT_INDEX_times3(d, k) == ((k * 3) + 1) % DICT_SIZE(d)

NEXT_INDEX(d, k) == ((k * 5) + 1) % DICT_SIZE(d)

\* IS_ENTRY that trusts the hash
IS_ENTRY_hash_only(ent, h, k) == ent.hash = h

\* IS_ENTRY that also matches the new name of a renamed entry
IS_ENTRY_or_new_name(ent, h, k) == (ent.hash = h /\ ent.key = k) \/ ent.val = k

IS_ENTRY(ent, h, k) == ent.hash = h /\ ent.key = k

new_dict ==
  [entries |-> << >>,
   indices |-> [k \in 0..(Pow2(DICT_INIT_BITS) - 1) |-> IDX_EMPTY],
   count |-> 0,
   size_bits |-> DICT_INIT_BITS]

\* the probe loop of dict_add from slot k: the entry found, or the empty slot
\* reached; a table without an empty slot makes the loop run forever
RECURSIVE Probe(_, _, _, _, _)
Probe(d, h, key, k, steps) ==
  IF steps > DICT_SIZE(d) THEN [kind |-> "loop", slot |-> k, ent |-> 0]
  ELSE IF d.indices[k] = IDX_EMPTY THEN [kind |-> "empty", slot |-> k, ent |-> 0]
  ELSE IF IS_ENTRY(d.entries[d.indices[k] + 1], h, key)
       THEN [kind |-> "found", slot |-> k, ent |-> d.indices[k]]
  ELSE Probe(d, h, key, NEXT_INDEX(d, k), steps + 1)

\* a search that takes the lowest empty slot, whatever the hash
FreeSlot_lowest(ind, size, k, steps) ==
  CHOOSE s \in 0..(size - 1) :
    ind[s] = IDX_EMPTY /\ \A t \in 0..(s - 1) : ind[t] # IDX_EMPTY

\* the probe loop of expand_dict: the first empty slot from k on
RECURSIVE FreeSlot(_, _, _, _)
FreeSlot(ind, size, k, steps) ==
  IF steps > size THEN -2
  ELSE IF ind[k] = IDX_EMPTY THEN k
  ELSE FreeSlot(ind, size, ((k * 5) + 1) % size, steps + 1)

RECURSIVE Rehash(_, _, _, _)
Rehash(ind, size, ents, n) ==
  IF n > Len(ents) THEN ind
  ELSE LET k == FreeSlot(ind, size, MaskIndex(ents[n].hash, size), 0)
       IN Rehash([ind EXCEPT ![k] = n - 1], size, ents, n + 1)

\* expand_dict that enlarges the slot table and leaves every slot reference
\* where it was
expand_dict_keeps_slots(d) ==
  [d EXCEPT !.size_bits = d.size_bits + 1,
            !.indices = [k \in 0..(Pow2(d.size_bits + 1) - 1) |->
                           IF k < Pow2(d.size_bits) THEN d.indices[k] ELSE IDX_EMPTY]]

\* expand_dict that does nothing
expand_dict_none(d) == d

expand_dict(d) ==
  LET size == Pow2(d.size_bits + 1)
  IN [d EXCEPT !.size_bits = d.size_bits + 1,
               !.indices = Rehash([k \in 0..(size - 1) |-> IDX_EMPTY], size, d.entries, 1)]

\* dict_add without the test of line 238: a rename of a missing key falls
\* through to the insertion
dict_add_no_missing_test(d, key, val) ==
  LET hash == hash_key(key)
      p == Probe(d, hash, key, MaskIndex(hash, DICT_SIZE(d)), 0)
      cleared == IF p.kind = "found" THEN [d EXCEPT !.entries[p.ent + 1].val = NULL] ELSE d
      d1 == [d EXCEPT !.entries = Append(d.entries,
                          [hash |-> hash, key |-> key, val |-> NULL]),
                      !.indices[p.slot] = d.count,
                      !.count = d.count + 1]
  IN IF p.kind = "found"
       THEN IF val = NULL
            THEN [dict |-> cleared, ret |-> FALSE, end |-> "strdup_null",
                  alloc |-> FALSE, nomem |-> cleared]
            ELSE [dict |-> [d EXCEPT !.entries[p.ent + 1].val = val],
                  ret |-> TRUE, end |-> "ret", alloc |-> TRUE, nomem |-> cleared]
     ELSE [dict |-> d1, ret |-> TRUE, end |-> "ret", alloc |-> TRUE, nomem |-> d]

\* dict_add that keeps the value of an entry that was renamed before
dict_add_first_wins(d, key, val) ==
  LET hash == hash_key(key)
      p == Probe(d, hash, key, MaskIndex(hash, DICT_SIZE(d)), 0)
      cleared == IF p.kind = "found" THEN [d EXCEPT !.entries[p.ent + 1].val = NULL] ELSE d
      d1 == [d EXCEPT !.entries = Append(d.entries,
                          [hash |-> hash, key |-> key, val |-> NULL]),
                      !.indices[p.slot] = d.count,
                      !.count = d.count + 1]
  IN IF p.kind = "found"
       THEN IF val = NULL
            THEN [dict |-> cleared, ret |-> FALSE, end |-> "strdup_null",
                  alloc |-> FALSE, nomem |-> cleared]
            ELSE [dict |-> IF d.entries[p.ent + 1].val # NULL THEN d
                           ELSE [d EXCEPT !.entries[p.ent + 1].val = val],
                  ret |-> TRUE, end |-> "ret", alloc |-> TRUE, nomem |-> cleared]
     ELSE IF val # NULL
       THEN [dict |-> d, ret |-> FALSE, end |-> "ret", alloc |-> FALSE, nomem |-> d]
     ELSE [dict |-> d1, ret |-> TRUE, end |-> "ret", alloc |-> TRUE, nomem |-> d]

\* dict_add: the dictionary after the call, the value returned, and how the
\* call ended: "ret" (returned), "strdup_null" (strdup was handed a null
\* pointer, line 232) or "loop" (the probe loop never ends)
\* "alloc" tells whether the call allocates memory, and "nomem" is the
\* dictionary left behind when that allocation fails and check_ptr aborts.
dict_add(d, key, val) ==
  LET hash == hash_key(key)
      p == Probe(d, hash, key, MaskIndex(hash, DICT_SIZE(d)), 0)
      cleared == IF p.kind = "found" THEN [d EXCEPT !.entries[p.ent + 1].val = NULL] ELSE d
  IN IF p.kind = "loop"
       THEN [dict |-> d, ret |-> FALSE, end |-> "loop", alloc |-> FALSE, nomem |-> d]
     ELSE IF p.kind = "found"
       THEN IF val = NULL
            THEN [dict |-> cleared, ret |-> FALSE, end |-> "strdup_null",
                  alloc |-> FALSE, nomem |-> cleared]
            ELSE [dict |-> [d EXCEPT !.entries[p.ent + 1].val = val],
                  ret |-> TRUE, end |-> "ret", alloc |-> TRUE, nomem |-> cleared]
     ELSE IF val # NULL
       THEN [dict |-> d, ret |-> FALSE, end |-> "ret", alloc |-> FALSE, nomem |-> d]
     ELSE LET d1 == [d EXCEPT !.entries = Append(d.entries,
                                   [hash |-> hash, key |-> key, val |-> NULL]),
                              !.indices[p.slot] = d.count,
                              !.count = d.count + 1]
          IN [dict |-> IF d1.count > (DICT_SIZE(d1) * 2) \div 3
                       THEN expand_dict(d1) ELSE d1,
              ret |-> TRUE, end |-> "ret", alloc |-> TRUE, nomem |-> d]

(* ------------------------------ buffer --------------------------------- *)
BUF_INIT_SIZE == 256
\* a byte of allocated memory that was never written
UNINIT == 256

new_buf == [size |-> BUF_INIT_SIZE, cnt |-> 0, buf |-> Rep(UNINIT, BUF_INIT_SIZE)]

\* the size after the enlarge loop of buf_cat
RECURSIVE GrownSize(_, _)
GrownSize(size, need) == IF need > size THEN GrownSize(size * 2, need) ELSE size

\* buf_cat with every realloc succeeding: the buffer after the call and the
\* offset returned
buf_cat(b, s) ==
  LET len == Len(s) + 1
      size == GrownSize(b.size, b.cnt + len)
      mem == [k \in 1..size |-> IF k <= b.size THEN b.buf[k] ELSE UNINIT]
  IN [buf |-> [size |-> size, cnt |-> b.cnt + len,
               buf |-> Store(mem, b.cnt, s \o << NUL >>)],
      offset |-> b.cnt]

\* buf_cat has to call realloc
BufGrows(b, s) == b.cnt + Len(s) + 1 > b.size

\* the number of realloc calls of the enlarge loop
RECURSIVE Doublings(_, _)
Doublings(size, need) == IF need > size THEN 1 + Doublings(size * 2, need) ELSE 0

\* buf_cat when a realloc of the enlarge loop returns a null pointer and a
\* later one succeeds: the result is stored unchecked, realloc of a null
\* pointer hands out new memory, and the old content is gone
buf_cat_lost(b, s) ==
  LET len == Len(s) + 1
      size == GrownSize(b.size, b.cnt + len)
  IN [buf |-> [size |-> size, cnt |-> b.cnt + len,
               buf |-> Store(Rep(UNINIT, size), b.cnt, s \o << NUL >>)],
      offset |-> b.cnt]

(* --------------------------- the COFF image ---------------------------- *)
IMAGE_SIZEOF_SYMBOL == 18
\* offset of NumberOfAuxSymbols in an IMAGE_SYMBOL
AuxOff == 17

Pad8(s) == [k \in 1..8 |-> IF k <= Len(s) THEN s[k] ELSE NUL]

AuxRecord == Rep(5, IMAGE_SIZEOF_SYMBOL)

\* one primary record and its auxiliary records; off is the offset of its
\* name in the string table
RecordOf(d, off) ==
  (IF d.long THEN << 0, 0, 0, 0 >> \o LE32(off) ELSE Pad8(d.name))
  \o << d.value0, 0, 0, 0 >> \o << 1, 0 >> \o << 32, 0 >> \o << 2 >> \o << d.naux >>
  \o (IF d.naux = 1 THEN AuxRecord ELSE << >>)

\* the symbol records and the strings of the string table of a file with
\* the primary symbols ds
RECURSIVE Layout(_, _, _, _)
Layout(ds, k, recs, strs) ==
  IF k > Len(ds) THEN [recs |-> recs, strs |-> strs]
  ELSE Layout(ds, k + 1, recs \o RecordOf(ds[k], 4 + Len(strs)),
              IF ds[k].long THEN strs \o ds[k].name \o << NUL >> ELSE strs)

\* the file from the symbol table on: the records, then the string table
ImageOf(ds) ==
  LET l == Layout(ds, 1, << >>, << >>)
  IN l.recs \o LE32(4 + Len(l.strs)) \o l.strs

NumberOfSymbols(ds) == Len(Layout(ds, 1, << >>, << >>).recs) \div IMAGE_SIZEOF_SYMBOL

InputFiles == UNION { [1..n -> SymKinds] : n \in 0..MaxPrim }

(* ------------------------------ smc.c ---------------------------------- *)
RecOff(k) == k * IMAGE_SIZEOF_SYMBOL

\* strtab = symtab + nsym
StrtabOff == RecOff(nsym)

\* sym->N.Name.Short ? sym->N.ShortName : strtab + sym->N.Name.Long
SymbolName(m, k) ==
  IF DWordAt(m, RecOff(k)) # 0 THEN CStrAt(m, RecOff(k))
  ELSE CStrAt(m, StrtabOff + DWordAt(m, RecOff(k) + 4))

NumberOfAuxSymbols(m, k) == ByteAt(m, RecOff(k) + AuxOff)

NoOutput == [opened |-> FALSE, head |-> FALSE, symtab |-> << >>, strtab |-> << >>,
             closed |-> FALSE]
NoBuf == [size |-> 0, cnt |-> 0, buf |-> << >>]
\* the last call of dict_add: its arguments and result, and the arguments
\* of the rename request before it, and whether an allocation failed in the
\* step
NoOp == [op |-> "none", key |-> << >>, val |-> NULL, ret |-> FALSE,
         pkey |-> << >>, pval |-> NULL, nomem |-> FALSE]

NoMem(l) == [l EXCEPT !.nomem = TRUE]

Init ==
  /\ pc = "start"
  /\ \E ds \in InputFiles : img = ImageOf(ds) /\ nsym = NumberOfSymbols(ds)
  /\ in0 = img
  /\ dict = new_dict
  /\ i = 0
  /\ renames = 0
  /\ buf = NoBuf
  /\ e = 0
  /\ sym = 0
  /\ out = NoOutput
  /\ err = "none"
  /\ last = NoOp
  /\ hist = << >>

\* error(): the message goes to stderr and longjmp makes main return 1
Abort(msg) == pc' = "aborted" /\ err' = msg

\* read_file, lines 91-95 of smc.c, and new_dict at the head of
\* get_symbol_names
ReadFile ==
  /\ pc = "start"
  /\ \/ pc' = "pass1" /\ err' = err /\ last' = last
     \/ Abort("open") /\ last' = last
     \/ Abort("mem") /\ last' = NoMem(last)
  /\ UNCHANGED <<img, in0, nsym, hist, dict, i, renames, buf, e, sym, out>>

\* one iteration of the loop of get_symbol_names
Pass1Step ==
  /\ pc = "pass1"
  /\ i < nsym
  /\ LET s == SymbolName(img, i)
         r == dict_add(dict, s, NULL)
         l == [NoOp EXCEPT !.op = "insert", !.key = s, !.ret = r.ret]
     IN \/ /\ r.end = "ret"
           /\ pc' = pc /\ err' = err
           /\ dict' = r.dict
           /\ i' = i + NumberOfAuxSymbols(img, i) + 1
           /\ last' = l
        \/ /\ r.end = "ret" /\ r.alloc
           /\ Abort("mem")
           /\ dict' = r.nomem
           /\ i' = i
           /\ last' = NoMem(l)
        \/ /\ r.end = "strdup_null"
           /\ \/ Abort("mem")
              \/ pc' = "crashed" /\ err' = err
           /\ dict' = r.dict
           /\ i' = i
           /\ last' = l
  /\ UNCHANGED <<img, in0, nsym, hist, renames, buf, e, sym, out>>

Pass1Done ==
  /\ pc = "pass1"
  /\ i >= nsym
  /\ pc' = "pass2"
  /\ UNCHANGED <<img, in0, nsym, hist, dict, i, renames, buf, e, sym, out, err, last>>

\* change_symbol_name(dict, argv[i], argv[i + 1]); argv[argc] is a null
\* pointer, so the last old name of an odd list comes with new = NULL
\* (the pairs of a list file reach change_symbol_name in the same way and
\* are not told apart here)
Pass2Step ==
  /\ pc = "pass2"
  /\ renames < MaxRenames
  /\ \E old \in OldNames, new \in NewNames \cup { NULL } :
       LET r == dict_add(dict, old, new)
           l == [op |-> "rename", key |-> old, val |-> new, ret |-> r.ret,
                 pkey |-> IF last.op = "rename" THEN last.key ELSE << >>,
                 pval |-> IF last.op = "rename" THEN last.val ELSE NULL,
                 nomem |-> FALSE]
       IN /\ renames' = renames + 1
          /\ \/ /\ r.end = "ret" /\ r.ret
                /\ dict' = r.dict
                /\ pc' = IF new = NULL THEN "save" ELSE pc
                /\ err' = err
                /\ last' = l
             \/ /\ r.end = "ret" /\ r.alloc
                /\ Abort("mem")
                /\ dict' = r.nomem
                /\ last' = NoMem(l)
             \/ /\ r.end = "ret" /\ ~r.ret
                /\ Abort("nosym")
                /\ dict' = r.dict
                /\ last' = l
             \/ /\ r.end = "strdup_null"
                /\ \/ Abort("mem")
                   \/ pc' = "crashed" /\ err' = err
                /\ dict' = r.dict
                /\ last' = l
  /\ UNCHANGED <<img, in0, nsym, hist, i, buf, e, sym, out>>

Pass2Done ==
  /\ pc = "pass2"
  /\ pc' = "save"
  /\ UNCHANGED <<img, in0, nsym, hist, dict, i, renames, buf, e, sym, out, err, last>>

\* lines 111-115: fopen, the bytes before the symbol table, new_buf
OpenOutput ==
  /\ pc = "save"
  /\ \/ /\ out' = [out EXCEPT !.opened = TRUE, !.head = TRUE]
        /\ buf' = [new_buf EXCEPT !.cnt = 4]
        /\ pc' = "pass3" /\ err' = err
        /\ last' = NoOp
     \/ /\ out' = [out EXCEPT !.opened = TRUE, !.head = TRUE]
        /\ Abort("mem")
        /\ buf' = buf
        /\ last' = NoMem(NoOp)
     \/ \* fopen returns a null pointer, which fwrite is handed
        /\ pc' = "crashed" /\ err' = err
        /\ UNCHANGED <<out, buf>>
        /\ last' = NoOp
  /\ e' = 0
  /\ sym' = 0
  /\ UNCHANGED <<img, in0, nsym, hist, dict, i, renames>>

\* the name field of record k lies inside the memory of the file
NameInFile(m, k) == RecOff(k) + 8 <= Len(m)

\* the values sym->NumberOfAuxSymbols can have: the byte of the record, any
\* byte when the record lies behind the end of the file
AuxValues(m, k) ==
  IF RecOff(k) + AuxOff < Len(m) THEN { NumberOfAuxSymbols(m, k) } ELSE { 0, 1 }

\* len < 8 in the place of len <= 8
EmitInline_lt8(s) == Len(s) < 8

\* len <= 8, line 120
EmitInline(s) == Len(s) <= 8

\* the name field as pass 3 writes it: strncpy of 8 bytes, or a zero
\* discriminator and the offset in the new string table
NameField(s, offset) ==
  IF EmitInline(s) THEN Pad8(s) ELSE << 0, 0, 0, 0 >> \o LE32(offset)

\* sym += 1, the auxiliary records not skipped
NextSym_no_aux(k, naux) == k + 1

\* sym += sym->NumberOfAuxSymbols + 1
NextSym(k, naux) == k + naux + 1

\* the stores of one iteration of pass 3 for the result c of buf_cat
EmitName(s, c) ==
  \/ /\ NameInFile(img, sym)
     /\ img' = Store(img, RecOff(sym), NameField(s, c.offset))
     /\ buf' = c.buf
     /\ \E naux \in AuxValues(img, sym) : sym' = NextSym(sym, naux)
     /\ e' = e + 1
     /\ pc' = pc
  \/ \* the record lies behind the file: the write is out of bounds
     /\ ~NameInFile(img, sym)
     /\ \/ /\ img' = img
           /\ buf' = c.buf
           /\ \E naux \in AuxValues(img, sym) : sym' = NextSym(sym, naux)
           /\ e' = e + 1
           /\ pc' = pc
        \/ /\ pc' = "crashed"
           /\ UNCHANGED <<img, buf, sym, e>>

\* one iteration of the loop of lines 116-128
Pass3Step ==
  /\ pc = "pass3"
  /\ e < dict.count
  /\ LET entry == dict.entries[e + 1]
         s == IF entry.val # NULL THEN entry.val ELSE entry.key
     IN \/ /\ EmitName(s, IF EmitInline(s) THEN [buf |-> buf, offset |-> 0]
                          ELSE buf_cat(buf, s))
           /\ last' = last
        \/ \* a realloc fails and a later one succeeds
           /\ ~EmitInline(s)
           /\ Doublings(buf.size, buf.cnt + Len(s) + 1) >= 2
           /\ EmitName(s, buf_cat_lost(buf, s))
           /\ last' = NoMem(last)
        \/ \* the last realloc fails: memcpy to a null pointer
           /\ ~EmitInline(s)
           /\ BufGrows(buf, s)
           /\ pc' = "crashed"
           /\ last' = NoMem(last)
           /\ UNCHANGED <<img, buf, sym, e>>
  /\ UNCHANGED <<in0, nsym, hist, dict, i, renames, out, err>>

\* lines 129-132: the string-table length, the two fwrite calls, fclose
Pass3Done ==
  /\ pc = "pass3"
  /\ e >= dict.count
  /\ buf' = [buf EXCEPT !.buf = Store(buf.buf, 0, LE32(buf.cnt))]
  /\ out' = [out EXCEPT !.symtab = SubSeq(img, 1, RecOff(nsym)),
                        !.strtab = SubSeq(buf'.buf, 1, buf.cnt),
                        !.closed = TRUE]
  /\ pc' = "done"
  /\ UNCHANGED <<img, in0, nsym, hist, dict, i, renames, e, sym, err, last>>

Next ==
  \/ ReadFile
  \/ Pass1Step
  \/ Pass1Done
  \/ Pass2Step
  \/ Pass2Done
  \/ OpenOutput
  \/ Pass3Step
  \/ Pass3Done

Spec == Init /\ [][Next]_vars

TypeOK ==
  /\ pc \in { "start", "pass1", "pass2", "save", "pass3", "done", "aborted", "crashed" }
  /\ err \in { "none", "open", "mem", "nosym" }
  /\ dict.count = Len(dict.entries)

(* ------------------------ the dictionary alone ------------------------- *)
\* Calls of dict_add and change_symbol_name on one dictionary, in any order:
\* the keys Key(0), Key(1), ... are added one after another, and rename
\* requests and lookups are made in between.  hist is the list of the rename
\* requests made so far.
\* the requests (old, new): Key(0) and Key(1) have the same hash, and NmNew8
\* is never added as a key
RenamePairs == { << Key(0), Key(1) >>, << Key(1), Key(0) >>, << Key(0), NmNew8 >>,
                 << NmNew8, Key(0) >> }

DInit ==
  /\ pc = "dict"
  /\ dict = new_dict
  /\ i = 0
  /\ renames = 0
  /\ hist = << >>
  /\ last = NoOp
  /\ err = "none"
  /\ img = << >> /\ in0 = << >> /\ nsym = 0
  /\ buf = NoBuf /\ e = 0 /\ sym = 0 /\ out = NoOutput

\* dict_add(dict, Key(i), NULL) for the next key
DInsert ==
  /\ pc = "dict"
  /\ i < MaxKeys
  /\ LET r == dict_add(dict, Key(i), NULL)
         l == [NoOp EXCEPT !.op = "insert", !.key = Key(i), !.ret = r.ret]
     IN \/ /\ r.end = "ret"
           /\ pc' = pc /\ err' = err
           /\ dict' = r.dict
           /\ i' = i + 1
           /\ last' = l
        \/ /\ r.end = "ret" /\ r.alloc
           /\ Abort("mem")
           /\ dict' = r.nomem
           /\ i' = i
           /\ last' = NoMem(l)
        \/ /\ r.end = "strdup_null"
           /\ \/ Abort("mem")
              \/ pc' = "crashed" /\ err' = err
           /\ dict' = r.dict
           /\ i' = i
           /\ last' = l
        \/ /\ r.end = "loop"
           /\ pc' = "hung" /\ err' = err
           /\ dict' = r.dict
           /\ i' = i
           /\ last' = l
  /\ UNCHANGED <<img, in0, nsym, hist, renames, buf, e, sym, out>>

\* dict_add(dict, key, NULL) for a key that was added before
DLookup ==
  /\ pc = "dict"
  /\ \E n \in {1} :
       /\ n < i
       /\ LET r == dict_add(dict, Key(n), NULL)
              l == [NoOp EXCEPT !.op = "lookup", !.key = Key(n), !.ret = r.ret]
          IN \/ /\ r.end = "ret"
                /\ pc' = pc /\ err' = err
                /\ dict' = r.dict
                /\ last' = l
             \/ /\ r.end = "strdup_null"
                /\ \/ Abort("mem")
                   \/ pc' = "crashed" /\ err' = err
                /\ dict' = r.dict
                /\ last' = l
             \/ /\ r.end = "loop"
                /\ pc' = "hung" /\ err' = err
                /\ dict' = r.dict
                /\ last' = l
  /\ UNCHANGED <<img, in0, nsym, hist, i, renames, buf, e, sym, out>>

\* change_symbol_name(dict, old, new)
DRename ==
  /\ pc = "dict"
  /\ renames < MaxDictRenames
  /\ \E rq \in RenamePairs :
       LET old == rq[1]
           new == rq[2]
           r == dict_add(dict, old, new)
           l == [op |-> "rename", key |-> old, val |-> new, ret |-> r.ret,
                 pkey |-> IF last.op = "rename" THEN last.key ELSE << >>,
                 pval |-> IF last.op = "rename" THEN last.val ELSE NULL,
                 nomem |-> FALSE]
       IN /\ renames' = renames + 1
          /\ hist' = Append(hist, [old |-> old, new |-> new, ret |-> r.ret])
          /\ \/ /\ r.end = "ret" /\ r.ret
                /\ dict' = r.dict
                /\ pc' = pc /\ err' = err
                /\ last' = l
             \/ /\ r.end = "ret" /\ r.alloc
                /\ Abort("mem")
                /\ dict' = r.nomem
                /\ last' = NoMem(l)
             \/ /\ r.end = "ret" /\ ~r.ret
                /\ Abort("nosym")
                /\ dict' = r.dict
                /\ last' = l
             \/ /\ r.end = "loop"
                /\ pc' = "hung" /\ err' = err
                /\ dict' = r.dict
                /\ last' = l
  /\ UNCHANGED <<img, in0, nsym, i, buf, e, sym, out>>

DNext == DInsert \/ DLookup \/ DRename

DictSpec == DInit /\ [][DNext]_vars

(* ------------------------- the probe sequence -------------------------- *)
\* The slots that the probe loops visit from one start slot, in an empty table
\* of each size that expand_dict can make.  hist is the list of the slots
\* visited so far.
RECURSIVE Grown(_)
Grown(bits) == IF bits <= DICT_INIT_BITS THEN new_dict ELSE expand_dict(Grown(bits - 1))

PInit ==
  /\ pc = "probe"
  /\ \E bits \in DICT_INIT_BITS..MaxBits :
       /\ dict = Grown(bits)
       /\ i \in 0..(Pow2(bits) - 1)
  /\ hist = << i >>
  /\ renames = 0
  /\ last = NoOp
  /\ err = "none"
  /\ img = << >> /\ in0 = << >> /\ nsym = 0
  /\ buf = NoBuf /\ e = 0 /\ sym = 0 /\ out = NoOutput

\* i = NEXT_INDEX(dict, i)
PStep ==
  /\ pc = "probe"
  /\ Len(hist) < DICT_SIZE(dict)
  /\ i' = NEXT_INDEX(dict, i)
  /\ hist' = Append(hist, i')
  /\ UNCHANGED <<pc, img, in0, nsym, dict, renames, buf, e, sym, out, err, last>>

PNext == PStep

ProbeSpec == PInit /\ [][PNext]_vars

(* --------------------------- the buffer alone -------------------------- *)
\* Calls of buf_cat on one buffer made by new_buf.  hist is the list of the
\* strings appended so far, each with the offset that buf_cat returned.
BufStrings == { NmShort, NmLong, NmBig, NmHuge }

BInit ==
  /\ pc = "buf"
  /\ buf = new_buf
  /\ e = 0
  /\ hist = << >>
  /\ last = NoOp
  /\ err = "none"
  /\ img = << >> /\ in0 = << >> /\ nsym = 0
  /\ dict = new_dict /\ i = 0 /\ renames = 0 /\ sym = 0 /\ out = NoOutput

\* offset = buf_cat(buf, s)
BAppend ==
  /\ pc = "buf"
  /\ e < MaxAppends
  /\ \E s \in BufStrings :
       \/ LET c == buf_cat(buf, s)
          IN /\ buf' = c.buf
             /\ hist' = Append(hist, [offset |-> c.offset, s |-> s])
             /\ e' = e + 1
             /\ pc' = pc
             /\ last' = last
       \/ \* a realloc fails and a later one succeeds
          /\ Doublings(buf.size, buf.cnt + Len(s) + 1) >= 2
          /\ LET c == buf_cat_lost(buf, s)
             IN /\ buf' = c.buf
                /\ hist' = Append(hist, [offset |-> c.offset, s |-> s])
                /\ e' = e + 1
                /\ pc' = pc
                /\ last' = NoMem(last)
       \/ \* the last realloc fails: memcpy to a null pointer
          /\ BufGrows(buf, s)
          /\ pc' = "crashed"
          /\ last' = NoMem(last)
          /\ UNCHANGED <<buf, hist, e>>
  /\ UNCHANGED <<img, in0, nsym, dict, i, renames, sym, out, err>>

BNext == BAppend

BufSpec == BInit /\ [][BNext]_vars

(* ------------------------------ properties ----------------------------- *)
\* the records the loop of get_symbol_names visits, from record k on
RECURSIVE PrimFrom(_, _, _)
PrimFrom(m, n, k) ==
  IF k >= n THEN << >>
  ELSE << k >> \o PrimFrom(m, n, k + NumberOfAuxSymbols(m, k) + 1)

\* the primary records of the input file, left to right
Primaries == PrimFrom(in0, nsym, 0)

HasKey(d, k) == \E j \in 1..Len(d.entries) : d.entries[j].key = k

\* entry->val ? : entry->key
Effective(ent) == IF ent.val # NULL THEN ent.val ELSE ent.key

\* the name of a record as the file format defines it: inline bytes up to
\* the first NUL or byte 8, or the string at the stored offset
RECURSIVE InlineLen(_, _, _)
InlineLen(m, off, k) ==
  IF k >= 8 \/ ByteAt(m, off + k) = NUL THEN k ELSE InlineLen(m, off, k + 1)

DecodeName(m, k) ==
  IF DWordAt(m, RecOff(k)) # 0
  THEN [j \in 1..InlineLen(m, RecOff(k), 0) |-> ByteAt(m, RecOff(k) + j - 1)]
  ELSE CStrAt(m, StrtabOff + DWordAt(m, RecOff(k) + 4))

\* the symbol table and the string table as written to the output file
OutFile == out.symtab \o out.strtab

\* string-table bytes of the long effective names of the first k entries
RECURSIVE LongBytes(_)
LongBytes(k) ==
  IF k = 0 THEN 0
  ELSE LongBytes(k - 1) + (IF Len(Effective(dict.entries[k])) > 8
                           THEN Len(Effective(dict.entries[k])) + 1 ELSE 0)

\* C1: for every input symbol array, also one with two primaries of the same
\* name, pass 1 gives every primary record its own entry, the e-th entry
\* belongs to the e-th primary record, and the record written at that
\* position encodes the effective name of that entry.
C1_OrderPreservation ==
  /\ (pc \in { "aborted", "crashed" } /\ last.op = "insert") => ~HasKey(dict, last.key)
  /\ pc \in { "pass2", "save", "pass3", "done" } =>
       LET P == Primaries
       IN /\ dict.count >= Len(P)
          /\ \A k \in 1..Len(P) : dict.entries[k].key = SymbolName(in0, P[k])
  /\ pc = "done" =>
       LET P == Primaries
           F == OutFile
       IN \A k \in 1..Len(P) : DecodeName(F, P[k]) = Effective(dict.entries[k])

\* C2: a rename request with a new name, for an old name that is not a key of
\* the dictionary, makes dict_add return false, ends the run with "Cannot
\* find symbol" and leaves the whole dictionary as it was.
C2_MissingSymbol ==
  [][(pc = "pass2" /\ renames' = renames + 1 /\ last'.val # NULL
        /\ ~HasKey(dict, last'.key))
     => (~last'.ret /\ pc' = "aborted" /\ err' = "nosym" /\ dict' = dict)]_vars

C2_Witness ==
  /\ pc = "aborted" /\ err = "nosym"
  /\ last.op = "rename" /\ last.val # NULL
  /\ dict.count > 0
  /\ ~HasKey(dict, last.key)

\* C3: dict_add(dict, key, NULL) for a key that is already in the dictionary
\* returns normally and changes nothing: pass 1 goes on to the next record
\* with the same entries, in the same positions, with the same values.
C3_IdempotentInsert ==
  [][(pc = "pass1" /\ i < nsym /\ HasKey(dict, SymbolName(img, i)))
     => (pc' = "pass1" /\ dict' = dict /\ i' > i)]_vars

\* C4: after pass 3 the name field of every primary record is the inline
\* form of the effective name exactly if that name has at most 8 bytes, and
\* otherwise the zero discriminator with the offset buf_cat returned,
\* whatever the encoding of the record in the input was.
C4_EncodingByEffectiveName ==
  pc = "done" =>
    LET P == Primaries IN
    \A k \in 1..Len(P) :
      LET s == Effective(dict.entries[k])
          off == RecOff(P[k])
      IN SubSeq(out.symtab, off + 1, off + 8) =
           (IF Len(s) <= 8 THEN Pad8(s)
            ELSE << 0, 0, 0, 0 >> \o LE32(4 + LongBytes(k - 1)))

C4_Witness ==
  LET P == Primaries IN
  /\ pc = "done"
  /\ \E k \in 1..Len(P) :
       /\ DWordAt(in0, RecOff(P[k])) = 0
       /\ Len(Effective(dict.entries[k])) <= 8
       /\ DWordAt(out.symtab, RecOff(P[k])) # 0
  /\ \E k \in 1..Len(P) :
       /\ DWordAt(in0, RecOff(P[k])) # 0
       /\ Len(Effective(dict.entries[k])) > 8
       /\ DWordAt(out.symtab, RecOff(P[k])) = 0
  /\ \E k \in 1..Len(P) : Len(Effective(dict.entries[k])) = 8

\* C5: every effective name of 0 to 8 bytes, written inline by pass 3, is
\* read back from the output file by the name extraction of pass 1 as the
\* same name.
C5_RoundTripShort ==
  LET P == Primaries
      F == OutFile IN
  pc = "done" =>
    \A k \in 1..Len(P) :
      Len(Effective(dict.entries[k])) <= 8
        => SymbolName(F, P[k]) = Effective(dict.entries[k])

\* C6: every effective name of more than 8 bytes is in the emitted string
\* table, NUL-terminated, at the offset stored in its record, however many
\* long names there are and however often the buffer grew.
C6_RoundTripLong ==
  LET P == Primaries IN
  pc = "done" =>
    \A k \in 1..Len(P) :
      Len(Effective(dict.entries[k])) > 8
        => /\ DWordAt(out.symtab, RecOff(P[k])) = 0
           /\ CStrAt(out.strtab, DWordAt(out.symtab, RecOff(P[k]) + 4))
                = Effective(dict.entries[k])
           /\ ByteAt(out.strtab, DWordAt(out.symtab, RecOff(P[k]) + 4)
                                 + Len(Effective(dict.entries[k]))) = NUL

\* C7: the key pass 1 inserts for a primary record is the inline name, cut at
\* the first NUL or after 8 bytes, when the first 4 bytes of the name field
\* are not zero, and the string at the stored offset of the string table
\* otherwise.
C7_PassOneDecoding ==
  [][(pc = "pass1" /\ i < nsym) => last'.key = DecodeName(img, i)]_vars

\* the bytes of the symbol table m outside the name fields of the primary
\* records are those of the input
FrameOK(m) ==
  LET P == Primaries
  IN \A r \in 0..(nsym - 1) :
       \A b \in 0..(IMAGE_SIZEOF_SYMBOL - 1) :
         \/ b < 8 /\ (\E k \in 1..Len(P) : P[k] = r)
         \/ ByteAt(m, RecOff(r) + b) = ByteAt(in0, RecOff(r) + b)

\* C8: pass 3 changes nothing of the symbol table but the 8-byte name fields
\* of the primary records: the output has nsym records, every auxiliary
\* record and every other field of a primary record is as in the input.
C8_Frame ==
  /\ Len(img) = Len(in0)
  /\ FrameOK(img)
  /\ pc = "done" => Len(out.symtab) = RecOff(nsym) /\ FrameOK(out.symtab)

C8_Witness ==
  LET P == Primaries IN
  /\ pc = "done"
  /\ nsym > Len(P)
  /\ \E k \in 1..Len(P) :
       /\ NumberOfAuxSymbols(in0, P[k]) = 1
       /\ dict.entries[k].val # NULL
       /\ SubSeq(out.symtab, RecOff(P[k]) + 1, RecOff(P[k]) + 8)
            # SubSeq(in0, RecOff(P[k]) + 1, RecOff(P[k]) + 8)

\* C9: the first 4 bytes of the emitted string table hold its length, which
\* is 4 plus length + 1 for every primary record with an effective name of
\* more than 8 bytes; every stored long-name offset is at least 4 and less
\* than that length.
C9_StringTableHeader ==
  LET P == Primaries IN
  pc = "done" =>
    /\ DWordAt(out.strtab, 0) = Len(out.strtab)
    /\ Len(out.strtab) = 4 + LongBytes(Len(P))
    /\ \A k \in 1..Len(P) :
         Len(Effective(dict.entries[k])) > 8
           => /\ DWordAt(out.symtab, RecOff(P[k]) + 4) >= 4
              /\ DWordAt(out.symtab, RecOff(P[k]) + 4) < Len(out.strtab)

\* C10: a second rename of a key that was renamed before returns true as the
\* first did and leaves the second name as the value of the entry; keys,
\* hashes, positions, the other values and the count stay as they were.
C10_RenameOverwrite ==
  [][(pc = "pass2" /\ renames' = renames + 1
        /\ last.op = "rename" /\ last.ret /\ last.val # NULL
        /\ last'.key = last.key /\ last'.val # NULL
        /\ err' # "mem")
     => /\ last'.ret
        /\ pc' = "pass2"
        /\ dict'.count = dict.count
        /\ Len(dict'.entries) = Len(dict.entries)
        /\ \A j \in 1..Len(dict.entries) :
             /\ dict'.entries[j].key = dict.entries[j].key
             /\ dict'.entries[j].hash = dict.entries[j].hash
             /\ dict'.entries[j].val =
                  (IF dict.entries[j].key = last.key THEN last'.val
                   ELSE dict.entries[j].val)
             /\ dict.entries[j].key = last.key
                  => Effective(dict'.entries[j]) = last'.val]_vars

C10_Witness ==
  /\ pc = "pass2"
  /\ last.op = "rename" /\ last.ret
  /\ last.pkey = last.key
  /\ last.pval # NULL /\ last.val # NULL /\ last.pval # last.val
  /\ \E j \in 1..Len(dict.entries) :
       dict.entries[j].key = last.key /\ dict.entries[j].val = last.val

\* C12: the output file is opened and written only after the rename loop is
\* over, and every rename request whose old name is not a key of the
\* dictionary ends the run through error() with nothing opened or written.
C12_NoOutputBeforeRenames ==
  [][/\ (out' # out => pc \in {"save", "pass3"})
     /\ (pc = "pass2" /\ renames' = renames + 1 /\ ~HasKey(dict, last'.key))
          => (pc' = "aborted" /\ out' = NoOutput)]_vars

\* C13: a failed allocation, wherever it happens, ends the run at once through
\* error() with "Memory allocation failed."; the run never goes on, and never
\* crashes, with the result of the failed allocation.
C13_AllocationFailureFatal ==
  last.nomem => (pc = "aborted" /\ err = "mem")

\* the keys of a dictionary in insertion order
KeySeq(d) == [k \in 1..d.count |-> d.entries[k].key]

\* C14: no step of pass 2 adds or removes an entry, whatever the argument
\* list, an odd one included: the number of entries and the sequence of keys
\* stay those of pass 1, and pass 3 emits one name per primary record.
C14_NoAdditionOrRemoval ==
  /\ [][pc = "pass2" => (dict'.count = dict.count /\ KeySeq(dict') = KeySeq(dict))]_vars
  /\ [](pc = "done" => e = Len(Primaries))

\* C11: adding a new key doubles the slot table exactly when the new count
\* exceeds two thirds of the table size (the 22nd key for 32 slots); after the
\* call, a growth included, every entry that was there before has its key,
\* value and position, a rename of its key succeeds and reaches that entry,
\* and a dict_add of its key with a null value creates no second entry.
C11_GrowthCorrectness ==
  [][(pc = "dict" /\ i' = i + 1) =>
       /\ dict'.count = dict.count + 1
       /\ dict'.size_bits = IF dict.count + 1 > (DICT_SIZE(dict) * 2) \div 3
                            THEN dict.size_bits + 1 ELSE dict.size_bits
       /\ (dict.size_bits = DICT_INIT_BITS /\ dict.count < 21) => dict'.size_bits = DICT_INIT_BITS
       /\ (dict.size_bits = DICT_INIT_BITS /\ dict.count = 21) => DICT_SIZE(dict') = 64
       /\ \A k \in 1..dict.count :
            LET key == dict.entries[k].key
                rn == dict_add(dict', key, NmNew8)
                lk == dict_add(dict', key, NULL)
            IN /\ dict'.entries[k] = dict.entries[k]
               /\ rn.end = "ret" /\ rn.ret
               /\ rn.dict.entries[k].val = NmNew8
               /\ lk.end # "loop" /\ lk.dict.count = dict'.count]_vars

C11_Witness ==
  /\ pc = "dict"
  /\ dict.size_bits = DICT_INIT_BITS + 2
  /\ dict.count = 43
  /\ dict.entries[1].val = Key(1)
  /\ dict.entries[2].val = Key(0)

\* C15: buf_cat returns the length before the call, the length grows by
\* strlen(s) + 1, and after every later append, with one doubling of the
\* capacity or several, the bytes at each offset returned so far are the
\* string appended there and its terminator.
C15_AppendStability ==
  /\ [][(pc = "buf" /\ e' = e + 1) =>
          LET h == hist'[Len(hist')]
          IN /\ h.offset = buf.cnt
             /\ buf'.cnt = buf.cnt + Len(h.s) + 1
             /\ buf'.cnt <= buf'.size]_vars
  /\ [](pc = "buf" =>
         \A j \in 1..Len(hist) :
           SubSeq(buf.buf, hist[j].offset + 1, hist[j].offset + Len(hist[j].s) + 1)
             = hist[j].s \o << NUL >>)

\* C16: in every step on a dictionary the count does not decrease, every
\* entry keeps its position, key and hash, the keys are pairwise distinct, a
\* value changes only in the entry whose key is byte for byte the key of the
\* call, and a dict_add of a key that is not there appends an entry for it,
\* also when an entry with the same hash is there.
C16_DataInvariant ==
  [][/\ dict'.count >= dict.count
     /\ \A j \in 1..dict.count :
          /\ dict'.entries[j].key = dict.entries[j].key
          /\ dict'.entries[j].hash = dict.entries[j].hash
          /\ dict'.entries[j].val # dict.entries[j].val
               => dict.entries[j].key = last'.key
     /\ \A j, k \in 1..dict'.count :
          j # k => dict'.entries[j].key # dict'.entries[k].key
     /\ (pc = "dict" /\ last'.op = "insert" /\ ~HasKey(dict, last'.key))
          => \/ last'.nomem
             \/ /\ pc' = "dict"
                /\ dict'.count = dict.count + 1
                /\ dict'.entries[dict'.count].key = last'.key]_vars

C16_Witness ==
  /\ pc = "dict"
  /\ dict.size_bits > DICT_INIT_BITS
  /\ dict.entries[1].hash = dict.entries[2].hash
  /\ dict.entries[1].key # dict.entries[2].key
  /\ dict.entries[1].val = NULL
  /\ dict.entries[2].val = Key(0)

\* C18: whenever dict_add has returned, count is at most two thirds of the
\* table size (rounded down) and at most the capacity of the entries array,
\* the slot table has an empty slot, and the probe loops of dict_add and
\* expand_dict end from every start slot, for keys present and absent.
C18_LoadBound ==
  LET size == DICT_SIZE(dict) IN
  /\ pc # "hung"
  /\ dict.count <= (size * 2) \div 3
  /\ dict.count <= size
  /\ \E k \in 0..(size - 1) : dict.indices[k] = IDX_EMPTY
  /\ \A k \in 0..(size - 1) : FreeSlot(dict.indices, size, k, 0) # -2
  /\ \A key \in DictKeys \cup { NmNew8 } :
       LET hash == hash_key(key)
       IN Probe(dict, hash, key, MaskIndex(hash, size), 0).kind # "loop"

C18_Witness ==
  /\ pc = "dict"
  /\ dict.size_bits = DICT_INIT_BITS + 1
  /\ dict.count = (DICT_SIZE(dict) * 2) \div 3

\* the probe sequence from slot k comes to the slot of entry n before it
\* crosses an empty slot
RECURSIVE Reaches(_, _, _, _)
Reaches(d, k, n, steps) ==
  IF steps >= DICT_SIZE(d) THEN FALSE
  ELSE IF d.indices[k] = n THEN TRUE
  ELSE IF d.indices[k] = IDX_EMPTY THEN FALSE
  ELSE Reaches(d, NEXT_INDEX(d, k), n, steps + 1)

\* C19: after every dict_add, those that call expand_dict included, each
\* entry index 0..count-1 is in exactly one slot, every other slot is empty,
\* and the probe sequence from (hash mod size) reaches the slot of each entry
\* without crossing an empty slot.
C19_SlotTableIntegrity ==
  LET slots == 0..(DICT_SIZE(dict) - 1)
      used == { k \in slots : dict.indices[k] # IDX_EMPTY }
  IN /\ DOMAIN dict.indices = slots
     /\ { dict.indices[k] : k \in used } = 0..(dict.count - 1)
     /\ Cardinality(used) = dict.count
     /\ \A n \in 0..(dict.count - 1) :
          Reaches(dict, MaskIndex(dict.entries[n + 1].hash, DICT_SIZE(dict)), n, 0)

C19_Witness ==
  /\ pc = "dict"
  /\ dict.size_bits = DICT_INIT_BITS + 2
  /\ \E n \in 0..(dict.count - 1) :
       dict.indices[MaskIndex(dict.entries[n + 1].hash, DICT_SIZE(dict))] # n

\* the requests of hist that were applied to the key
AppliedTo(key) == { j \in 1..Len(hist) : hist[j].old = key /\ hist[j].ret }

\* the largest element of a non-empty set of numbers
Latest(S) == CHOOSE j \in S : \A m \in S : m <= j

\* C20: while the calls return, the effective name of every entry is the new
\* name of the last request whose old name is the key of the entry, and the
\* key itself when there is no such request; a request whose old name is not a key fails with "Cannot
\* find symbol" and changes nothing, also when the old name is the new name
\* that an earlier request gave to an entry.
C20_RenamesResolveAgainstOriginals ==
  /\ [](pc = "dict" =>
         \A k \in 1..dict.count :
           LET key == dict.entries[k].key
               R == AppliedTo(key)
           IN Effective(dict.entries[k])
                = IF R = {} THEN key ELSE hist[Latest(R)].new)
  /\ [][(pc = "dict" /\ renames' = renames + 1 /\ ~HasKey(dict, last'.key))
          => (~last'.ret /\ pc' = "aborted" /\ err' = "nosym" /\ dict' = dict)]_vars

C20_Witness ==
  /\ pc = "dict"
  /\ hist = << [old |-> Key(0), new |-> Key(1), ret |-> TRUE],
               [old |-> Key(1), new |-> Key(0), ret |-> TRUE] >>
  /\ Effective(dict.entries[1]) = Key(1)
  /\ Effective(dict.entries[2]) = Key(0)

\* C17: for every table size 32, 64, 128, ... and every start slot, the first
\* tableSize slots of the probe sequence are pairwise different, so they are
\* all the slots of the table, and the step after them is the start slot.
C17_FullPeriodProbe ==
  LET visited == { hist[j] : j \in 1..Len(hist) } IN
  pc = "probe" =>
    /\ visited \subseteq 0..(DICT_SIZE(dict) - 1)
    /\ Cardinality(visited) = Len(hist)
    /\ Len(hist) = DICT_SIZE(dict)
         => /\ visited = 0..(DICT_SIZE(dict) - 1)
            /\ NEXT_INDEX(dict, i) = hist[1]

C17_Witness ==
  /\ pc = "probe"
  /\ dict.size_bits = DICT_INIT_BITS + 2
  /\ Len(hist) = DICT_SIZE(dict)
  /\ hist[1] = 77

====
